---- MODULE Spec2Model ----
(***************************************************************************)
(* fasted: the SelfDependent descriptor, its single-slot IdMemo, the       *)
(* SelfWrapper call shapes and replace_self_signature.                     *)
(*                                                                         *)
(* Spec      one descriptor, accessed and called by one thread at a time.  *)
(* SpecConc  the same descriptor accessed by several threads, each         *)
(*           __get__ split at its reads and writes of the shared memo.     *)
(* SpecMemo  an IdMemo on its own: store and value with any value.         *)
(* SpecHeap  IdMemo.hash while instances are created and collected.        *)
(* SpecLive  one descriptor accessed by one thread at a time while         *)
(*           instances are created and collected.                          *)
(* SpecGen   one generator wrapper invoked twice, the two sequences        *)
(*           iterated in any order.                                        *)
(***************************************************************************)
EXTENDS Integers, Sequences, FiniteSets, TLC

(***************************************************************************)
(* Bounds of the model.                                                    *)
(***************************************************************************)
\* Live instances of the classes that carry the descriptor.
MaxInstances == 2
\* Descriptor accesses (__get__ calls) in one behaviour.
MaxAccesses == 3
\* Threads that access the descriptor in SpecConc.
MaxThreads == 2
\* store calls made on the memo in SpecMemo.
MaxStores == 2
\* Instances created, and the addresses they can be given, in SpecHeap and
\* SpecLive.
MaxCreated == 2
\* Values a caller takes from one generator.
MaxProduced == 3

(***************************************************************************)
(* Objects.  None, the classes, the factory and the instances are Python   *)
(* objects; an object is named by a string and identified by its address.  *)
(***************************************************************************)
None == "None"
Classes == {"Foo", "SubFoo"}
InstanceNames == <<"foo1", "sub1", "foo2", "sub2", "foo3", "sub3">>
Instances == {InstanceNames[i] : i \in 1..MaxInstances}
TypeOf(o) == IF o \in {"sub1", "sub2", "sub3"} THEN "SubFoo" ELSE "Foo"
\* BaseFoo.__init__: the instance's _base attribute.
Base(o) ==
  CASE o = "foo1" -> 3
    [] o = "sub1" -> 6
    [] o = "foo2" -> 2
    [] o = "sub2" -> 5
    [] o = "foo3" -> 4
    [] OTHER -> 7

\* The (owner, obj_type) pairs attribute access hands to __get__: through an
\* instance, or through the class with owner None.
AccessPairs ==
  {<<None, c>> : c \in Classes} \cup {<<o, TypeOf(o)>> : o \in Instances}

(***************************************************************************)
(* 64-bit unsigned arithmetic on little-endian sequences of 8 bytes, for   *)
(* the tuple hash that IdMemo.hash computes.                               *)
(***************************************************************************)
RECURSIVE ToBytes(_, _)
ToBytes(n, k) == IF k = 0 THEN <<>> ELSE <<n % 256>> \o ToBytes(n \div 256, k - 1)

U64(n) == ToBytes(n, 8)

RECURSIVE AddCarry(_, _, _, _)
AddCarry(a, b, i, carry) ==
  IF i > 8 THEN <<>>
  ELSE LET s == a[i] + b[i] + carry
       IN  <<s % 256>> \o AddCarry(a, b, i + 1, s \div 256)

Add64(a, b) == AddCarry(a, b, 1, 0)

RECURSIVE MulColumn(_, _, _, _)
\* Sum of a[i] * b[k + 1 - i] for i in j..k: column k of the product.
MulColumn(a, b, k, j) ==
  IF j > k THEN 0 ELSE a[j] * b[k + 1 - j] + MulColumn(a, b, k, j + 1)

RECURSIVE MulCarry(_, _, _, _)
MulCarry(a, b, k, carry) ==
  IF k > 8 THEN <<>>
  ELSE LET s == MulColumn(a, b, k, 1) + carry
       IN  <<s % 256>> \o MulCarry(a, b, k + 1, s \div 256)

Mul64(a, b) == MulCarry(a, b, 1, 0)

\* (x << 31) | (x >> 33): rotate left by 32 (four bytes), then right by 1.
Rotl31(a) ==
  LET r == [i \in 1..8 |-> a[((i + 3) % 8) + 1]]
  IN  [i \in 1..8 |-> (r[i] \div 2) + 128 * (r[(i % 8) + 1] % 2)]

RECURSIVE XorBits(_, _, _)
XorBits(x, y, k) ==
  IF k = 0 THEN 0
  ELSE ((x + y) % 2) + 2 * XorBits(x \div 2, y \div 2, k - 1)

Xor64(a, b) == [i \in 1..8 |-> XorBits(a[i], b[i], 8)]

\* CPython's _PyHASH_XXPRIME_1, _2, _5, the tuple hash's length salt and the
\* value it returns in place of -1.
XXPRIME_1 == <<135, 202, 235, 133, 177, 121, 55, 158>>
XXPRIME_2 == <<79, 235, 212, 39, 61, 174, 178, 194>>
XXPRIME_5 == <<197, 103, 86, 22, 47, 235, 212, 39>>
XXSALT == <<115, 211, 53, 0, 0, 0, 0, 0>>
XXMINUS1 == <<255, 255, 255, 255, 255, 255, 255, 255>>
XXFALLBACK == <<212, 75, 42, 92, 0, 0, 0, 0>>

(***************************************************************************)
(* id() and hash().                                                        *)
(***************************************************************************)
\* The objects alive in a behaviour, in heap order.  A wrapper in the memo
\* holds its owner (closure) and its type (signature annotation), so the
\* objects a stored key was computed from stay alive and keep their address.
Heap == <<None, "Foo", "SubFoo", "make_foo", "falsy_factory">> \o InstanceNames

\* id(o): the address of o; distinct live objects have distinct addresses.
id(o) == 4096 + 16 * (CHOOSE i \in 1..Len(Heap) : Heap[i] = o)

\* hash(n) of a non-negative int below 2^61 - 1 is n itself.
IntHash(n) == U64(n)

RECURSIVE TupleHashLanes(_, _, _)
TupleHashLanes(acc, lanes, i) ==
  IF i > Len(lanes) THEN acc
  ELSE TupleHashLanes(
         Mul64(Rotl31(Add64(acc, Mul64(lanes[i], XXPRIME_2))), XXPRIME_1),
         lanes, i + 1)

\* hash(tuple): the xxHash-based tuple hash, as an unsigned 64-bit value.
TupleHash(lanes) ==
  LET acc == Add64(TupleHashLanes(XXPRIME_5, lanes, 1),
                   Xor64(U64(Len(lanes)), Xor64(XXPRIME_5, XXSALT)))
  IN  IF acc = XXMINUS1 THEN XXFALLBACK ELSE acc

\* IdMemo.hash(*items): hash(tuple(id(i) for i in items)).
hash(items) == TupleHash([i \in 1..Len(items) |-> IntHash(id(items[i]))])

\* memo.hash(owner, obj_type) for every owner and type, tabulated once (@@ builds
\* the table when the definition is first evaluated).
Owners == Instances \cup {None}
memo_hash == [items \in Owners \X Classes |-> hash(items)] @@ <<>>

(***************************************************************************)
(* id() over the life of objects.  An instance is created at a free        *)
(* address and can be collected once nothing refers to it; its address is  *)
(* then free again.  None, the classes and the factory live throughout.    *)
(***************************************************************************)
\* The instances a behaviour creates, in the order it creates them.
CreationOrder == <<"foo1", "foo2", "sub1", "sub2", "foo3", "sub3">>
HeapInstances == {CreationOrder[i] : i \in 1..MaxCreated}
\* The addresses of the static objects, and those instances are created at.
StaticAddresses == 1..(Len(Heap) - Len(InstanceNames))
InstanceAddresses ==
  (Len(Heap) - Len(InstanceNames) + 1)..(Len(Heap) - Len(InstanceNames) + MaxCreated)

\* Whether o exists in heap h.
Alive(h, o) == o \in HeapInstances => h[o] > 0

\* id(o) in heap h.
id_in(h, o) ==
  4096 + 16 * (IF o \in HeapInstances THEN h[o]
               ELSE CHOOSE i \in StaticAddresses : Heap[i] = o)

\* hash((a, b)) for every pair of addresses, tabulated once.
Addresses == {4096 + 16 * i : i \in StaticAddresses \cup InstanceAddresses}
hash_of_ids ==
  [ids \in Addresses \X Addresses |-> TupleHash(<<IntHash(ids[1]), IntHash(ids[2])>>)]
    @@ <<>>

\* Mutant of IdMemo.hash: hash(frozenset(id(i) for i in items)), the order of
\* the items lost.
hash_unordered(h, items) ==
  LET a == id_in(h, items[1])
      b == id_in(h, items[2])
  IN  hash_of_ids[<<IF a <= b THEN a ELSE b, IF a <= b THEN b ELSE a>>]

\* IdMemo.hash(*items) in heap h, for two items.
hash_in(h, items) == hash_of_ids[<<id_in(h, items[1]), id_in(h, items[2])>>]

(***************************************************************************)
(* Errors, by the exception the code raises.                               *)
(***************************************************************************)
NoError == ""
\* idmemo.py: raise KeyError(...), the spec's EmptyMemoError.
EmptyMemoError == "KeyError: Memo value accessed before first use."
\* selfdependent.py: raise RuntimeError(...), the spec's MissingOwnerError.
MissingOwnerError == "RuntimeError: Missing self argument."
\* utils.py: raise ValueError(...), the spec's NoSelfParameterError.
NoSelfParameterError == "ValueError: Method has no self argument."
\* inspect.Signature refuses a positional-only parameter after the new self.
ParameterOrderError == "ValueError: wrong parameter order"

(***************************************************************************)
(* Wrapped functions: the methods a class body hands to the decorator.     *)
(***************************************************************************)
NoAnnotation == [type |-> "", depends |-> ""]
FloatAnnotation == [type |-> "float", depends |-> ""]

Parameter(name, kind, default, annotation) ==
  [name |-> name, kind |-> kind, default |-> default, annotation |-> annotation]

SelfFirst == Parameter("self", "POSITIONAL_OR_KEYWORD", FALSE, NoAnnotation)

\* decl is how the function is declared: it decides what inspect reports.
WrappedFunctions ==
  { [name |-> "sync_method", decl |-> "def",
     params |-> <<SelfFirst,
                  Parameter("mul", "POSITIONAL_OR_KEYWORD", TRUE, FloatAnnotation)>>],
    [name |-> "async_method", decl |-> "async def",
     params |-> <<SelfFirst,
                  Parameter("mul", "POSITIONAL_OR_KEYWORD", TRUE, FloatAnnotation)>>],
    [name |-> "sync_generator", decl |-> "def yield",
     params |-> <<SelfFirst,
                  Parameter("exp", "POSITIONAL_OR_KEYWORD", FALSE, FloatAnnotation)>>],
    [name |-> "async_generator", decl |-> "async def yield",
     params |-> <<SelfFirst,
                  Parameter("exp", "POSITIONAL_OR_KEYWORD", FALSE, FloatAnnotation)>>],
    \* Generators that produce base**1 .. base**exp, from start on.
    [name |-> "sync_powers", decl |-> "def yield",
     params |-> <<SelfFirst,
                  Parameter("exp", "POSITIONAL_OR_KEYWORD", FALSE, FloatAnnotation),
                  Parameter("start", "KEYWORD_ONLY", TRUE, FloatAnnotation)>>],
    [name |-> "async_powers", decl |-> "async def yield",
     params |-> <<SelfFirst,
                  Parameter("exp", "POSITIONAL_OR_KEYWORD", FALSE, FloatAnnotation),
                  Parameter("start", "KEYWORD_ONLY", TRUE, FloatAnnotation)>>],
    \* Generators that never end: base**exp, base**(exp + 1), ...
    [name |-> "sync_count", decl |-> "def yield",
     params |-> <<SelfFirst,
                  Parameter("exp", "POSITIONAL_OR_KEYWORD", FALSE, FloatAnnotation)>>],
    [name |-> "async_count", decl |-> "async def yield",
     params |-> <<SelfFirst,
                  Parameter("exp", "POSITIONAL_OR_KEYWORD", FALSE, FloatAnnotation)>>],
    \* A method whose owner parameter is not named self.
    [name |-> "no_self", decl |-> "def",
     params |-> <<Parameter("this", "POSITIONAL_OR_KEYWORD", FALSE, NoAnnotation),
                  Parameter("mul", "POSITIONAL_OR_KEYWORD", TRUE, FloatAnnotation)>>],
    \* def positional(self, mul, /)
    [name |-> "positional", decl |-> "def",
     params |-> <<Parameter("self", "POSITIONAL_ONLY", FALSE, NoAnnotation),
                  Parameter("mul", "POSITIONAL_ONLY", FALSE, FloatAnnotation)>>] }

\* The factory argument of selfdependent(): None or a dependency, a function
\* or a callable instance whose __bool__ returns False.
Factories == {None, "make_foo", "falsy_factory"}

\* bool(o): None and an object whose __bool__ returns False are false, every
\* other object (a function, a class) is true.
bool(o) == o \notin {None, "falsy_factory"}

isgeneratorfunction(f) == f.decl = "def yield"
isasyncgenfunction(f) == f.decl = "async def yield"
iscoroutinefunction(f) == f.decl = "async def"

(***************************************************************************)
(* IdMemo.                                                                 *)
(***************************************************************************)
\* self._hash = None: no key is a sequence of no bytes.
NoKey == <<>>
\* self._value = None.
NoValue == [ident |-> 0]

\* IdMemo.__init__
IdMemo == [hash |-> NoKey, value |-> NoValue]

\* Mutant of __contains__: "self._hash is key", never true of two int objects.
contains_by_identity(memo, key) == FALSE

\* Mutant of __contains__: any key is found once a key is stored.
contains_any(memo, key) == memo.hash # NoKey

\* IdMemo.__contains__
contains(memo, key) == memo.hash = key

\* IdMemo.value: the value, or the error raised.
value(memo) ==
  IF memo.value = NoValue
  THEN [raised |-> EmptyMemoError, val |-> NoValue]
  ELSE [raised |-> NoError, val |-> memo.value]

\* Mutant of store: the key is written only into an empty memo.
store_hash_once(memo, key) ==
  IF memo.hash = NoKey THEN [memo EXCEPT !.hash = key] ELSE memo

\* Mutant of store: the value is written only into an empty memo.
store_value_once(memo, val) ==
  IF memo.value = NoValue THEN [memo EXCEPT !.value = val] ELSE memo

\* The two assignments of IdMemo.store, in order.
store_hash(memo, key) == [memo EXCEPT !.hash = key]
store_value(memo, val) == [memo EXCEPT !.value = val]

\* IdMemo.store, run without interruption; it returns val.
store(memo, key, val) == store_value(store_hash(memo, key), val)

\* IdMemo.store, line 40: return value.
store_returns(memo, key, val) == val

(***************************************************************************)
(* SelfWrapper: the four closures.  A wrapper is a new function object     *)
(* (ident) closing over func and owner; functools.wraps gives it func's    *)
(* signature until __signature__ is set.                                   *)
(***************************************************************************)
Closure(shape, func, owner, ident) ==
  [ident |-> ident, shape |-> shape, func |-> func, owner |-> owner,
   signature_set |-> FALSE, signature |-> <<>>]

sync_method(func, owner, ident) == Closure("Plain", func, owner, ident)
sync_generator(func, owner, ident) == Closure("SyncGenerator", func, owner, ident)
async_method(func, owner, ident) == Closure("Coroutine", func, owner, ident)
async_generator(func, owner, ident) == Closure("AsyncGenerator", func, owner, ident)

\* inspect.signature(w).parameters: __signature__ if set, else that of
\* __wrapped__.
signature(w) == IF w.signature_set THEN w.signature ELSE w.func.params

(***************************************************************************)
(* replace_self_signature.                                                 *)
(***************************************************************************)
HasParameter(parameters, name) ==
  \E i \in 1..Len(parameters) : parameters[i].name = name

NotSelf(p) == p.name # "self"

KindRank(kind) ==
  CASE kind = "POSITIONAL_ONLY" -> 0
    [] kind = "POSITIONAL_OR_KEYWORD" -> 1
    [] kind = "VAR_POSITIONAL" -> 2
    [] kind = "KEYWORD_ONLY" -> 3
    [] OTHER -> 4

\* inspect.Signature validates that parameter kinds never decrease.
ValidParameterOrder(parameters) ==
  \A i \in 1..(Len(parameters) - 1) :
    KindRank(parameters[i].kind) <= KindRank(parameters[i + 1].kind)

\* (self_param, *(v for k, v in signature.parameters.items() if k != "self"))
replaced_parameters(parameters, self_param) ==
  <<self_param>> \o SelectSeq(parameters, NotSelf)

\* Mutant of replace_self_signature: no check that self is a parameter.
replace_self_signature_unchecked(func, self_param) ==
  [raised |-> NoError,
   func |-> [func EXCEPT !.signature_set = TRUE,
                         !.signature = replaced_parameters(signature(func), self_param)]]

\* replace_self_signature(func, self_param): the error raised, and func with
\* its __signature__ set.
replace_self_signature(func, self_param) ==
  LET parameters == signature(func)
      new == replaced_parameters(parameters, self_param)
  IN  IF ~HasParameter(parameters, "self")
      THEN [raised |-> NoSelfParameterError, func |-> func]
      ELSE IF ~ValidParameterOrder(new)
      THEN [raised |-> ParameterOrderError, func |-> func]
      ELSE [raised |-> NoError,
            func |-> [func EXCEPT !.signature_set = TRUE, !.signature = new]]

(***************************************************************************)
(* SelfDependent.                                                          *)
(***************************************************************************)
\* SelfDependent.__init__
SelfDependent(wrapped, factory) ==
  [wrapped |-> wrapped, factory |-> factory]

\* selfdependent(factory)(func)
selfdependent(factory, func) == SelfDependent(func, factory)

\* Mutant of __get__: the two generator wrappers exchanged.
build_wrapper_swapped(wrapped, owner, ident) ==
  IF isgeneratorfunction(wrapped) THEN async_generator(wrapped, owner, ident)
  ELSE IF isasyncgenfunction(wrapped) THEN sync_generator(wrapped, owner, ident)
  ELSE IF iscoroutinefunction(wrapped) THEN async_method(wrapped, owner, ident)
  ELSE sync_method(wrapped, owner, ident)

\* __get__, lines 165-174: the wrapper for the wrapped function's shape.
build_wrapper(wrapped, owner, ident) ==
  IF isgeneratorfunction(wrapped) THEN sync_generator(wrapped, owner, ident)
  ELSE IF isasyncgenfunction(wrapped) THEN async_generator(wrapped, owner, ident)
  ELSE IF iscoroutinefunction(wrapped) THEN async_method(wrapped, owner, ident)
  ELSE sync_method(wrapped, owner, ident)

\* self._factory or obj_type: the factory if it is true, else obj_type.
depends_on(factory, obj_type) == IF bool(factory) THEN factory ELSE obj_type

\* __get__, lines 178-182: the new description of self.
self_parameter(factory, obj_type) ==
  Parameter("self", "POSITIONAL_OR_KEYWORD", FALSE,
            [type |-> obj_type, depends |-> depends_on(factory, obj_type)])

\* __get__, lines 165-183: what a cache miss builds, or the error it raises.
build(desc, owner, obj_type, ident) ==
  replace_self_signature(build_wrapper(desc.wrapped, owner, ident),
                         self_parameter(desc.factory, obj_type))

\* __get__, lines 165-172: the inspect predicates a cache miss evaluates on
\* the wrapped function, in the order it evaluates them.
probes(wrapped) ==
  IF isgeneratorfunction(wrapped) THEN <<"isgeneratorfunction">>
  ELSE IF isasyncgenfunction(wrapped)
  THEN <<"isgeneratorfunction", "isasyncgenfunction">>
  ELSE <<"isgeneratorfunction", "isasyncgenfunction", "iscoroutinefunction">>

\* Mutant of __get__: the memo is consulted only for the key; a wrapper is
\* built, rewritten and stored at every access.
descriptor_get_rebuild(desc, memo, hcurrent, owner, obj_type, ident) ==
  LET b == build(desc, owner, obj_type, ident)
  IN  IF b.raised # NoError
      THEN [memo |-> memo, raised |-> b.raised, wrapper |-> NoValue,
            hit |-> contains(memo, hcurrent), stored |-> NoKey,
            probes |-> probes(desc.wrapped), rewrites |-> 1]
      ELSE [memo |-> store(memo, hcurrent, b.func), raised |-> NoError,
            wrapper |-> b.func, hit |-> contains(memo, hcurrent),
            stored |-> hcurrent, probes |-> probes(desc.wrapped), rewrites |-> 1]

\* Mutant of __get__: the wrapper is stored before its signature is replaced.
descriptor_get_store_first(desc, memo, hcurrent, owner, obj_type, ident) ==
  IF contains(memo, hcurrent)
  THEN LET v == value(memo)
       IN  [memo |-> memo, raised |-> v.raised, wrapper |-> v.val,
            hit |-> TRUE, stored |-> NoKey, probes |-> <<>>, rewrites |-> 0]
  ELSE LET b == build(desc, owner, obj_type, ident)
       IN  [memo |-> store(memo, hcurrent,
                           IF b.raised # NoError
                           THEN build_wrapper(desc.wrapped, owner, ident)
                           ELSE b.func),
            raised |-> b.raised,
            wrapper |-> IF b.raised # NoError THEN NoValue ELSE b.func,
            hit |-> FALSE, stored |-> hcurrent,
            probes |-> probes(desc.wrapped), rewrites |-> 1]

\* __get__ run without interruption, with hcurrent the key line 161 computed:
\* the memo afterwards, the error raised, the wrapper returned, whether the
\* key was found, the key stored, the inspect predicates evaluated and the
\* calls of replace_self_signature made.
descriptor_get_key(desc, memo, hcurrent, owner, obj_type, ident) ==
  IF contains(memo, hcurrent)
  THEN LET v == value(memo)
       IN  [memo |-> memo, raised |-> v.raised, wrapper |-> v.val,
            hit |-> TRUE, stored |-> NoKey, probes |-> <<>>, rewrites |-> 0]
  ELSE LET b == build(desc, owner, obj_type, ident)
       IN  IF b.raised # NoError
           THEN [memo |-> memo, raised |-> b.raised, wrapper |-> NoValue,
                 hit |-> FALSE, stored |-> NoKey,
                 probes |-> probes(desc.wrapped), rewrites |-> 1]
           ELSE [memo |-> store(memo, hcurrent, b.func), raised |-> NoError,
                 wrapper |-> b.func, hit |-> FALSE, stored |-> hcurrent,
                 probes |-> probes(desc.wrapped), rewrites |-> 1]

\* __get__ where every instance is alive throughout.
descriptor_get(desc, memo, owner, obj_type, ident) ==
  descriptor_get_key(desc, memo, memo_hash[<<owner, obj_type>>], owner, obj_type, ident)

\* __get__ in heap h, where the addresses of the instances are those they
\* were created at.
descriptor_get_in(h, desc, memo, owner, obj_type, ident) ==
  descriptor_get_key(desc, memo, hash_in(h, <<owner, obj_type>>), owner, obj_type, ident)

(***************************************************************************)
(* Calling the wrapped function: func(self, *args, **kwargs).  A wrapped   *)
(* function of the tests reads self._base and one number.                  *)
(***************************************************************************)
\* The numbers passed as mul, exp or start.
ArgValues == {0, 2}

RECURSIVE Pow(_, _)
Pow(b, e) == IF e <= 0 THEN 1 ELSE b * Pow(b, e - 1)

RECURSIVE Powers(_, _, _)
\* <<b**lo, ..., b**hi>>
Powers(b, lo, hi) == IF lo > hi THEN <<>> ELSE <<Pow(b, lo)>> \o Powers(b, lo + 1, hi)

\* How parameter k >= 2 of f is bound: the first positional argument goes to
\* parameter 1, args[k - 1] to parameter k.
Binding(f, k, args, kwargs) ==
  LET p == f.params[k]
      byPos == p.kind # "KEYWORD_ONLY" /\ k - 1 <= Len(args)
      byKw == p.name \in DOMAIN kwargs
  IN  [ok |-> /\ ~(byPos /\ byKw)
              /\ ~(byKw /\ p.kind = "POSITIONAL_ONLY")
              /\ (byPos \/ byKw \/ p.default),
       given |-> byPos \/ byKw,
       v |-> IF byPos THEN args[k - 1] ELSE IF byKw THEN kwargs[p.name] ELSE 0]

\* Whether Python binds (self, *args, **kwargs) to f's parameters.
Binds(f, args, kwargs) ==
  /\ Len(args) <= Cardinality({k \in 2..Len(f.params) : f.params[k].kind # "KEYWORD_ONLY"})
  /\ \A name \in DOMAIN kwargs :
       \E k \in 2..Len(f.params) : f.params[k].name = name
  /\ \A k \in 2..Len(f.params) : Binding(f, k, args, kwargs).ok

\* func(self, *args, **kwargs) run to its end: the error raised, the values
\* produced (generators) and the value returned.
call_function(f, self, args, kwargs) ==
  IF ~Binds(f, args, kwargs)
  THEN [raised |-> "TypeError", yields |-> <<>>, returns |-> <<>>, forever |-> FALSE]
  ELSE IF self \notin Instances
  THEN [raised |-> "AttributeError", yields |-> <<>>, returns |-> <<>>,
        forever |-> FALSE]
  ELSE LET base == Base(self)
           arg == Binding(f, 2, args, kwargs)
       IN  CASE f.name \in {"sync_generator", "async_generator"} ->
                  [raised |-> NoError, yields |-> <<Pow(base, arg.v)>>,
                   returns |-> <<>>, forever |-> FALSE]
             [] f.name \in {"sync_powers", "async_powers"} ->
                  LET start == Binding(f, 3, args, kwargs)
                  IN  [raised |-> NoError,
                       yields |-> Powers(base, IF start.given THEN start.v ELSE 1, arg.v),
                       returns |-> <<>>, forever |-> FALSE]
             \* Of a generator that never ends, the values a caller can take
             \* and one more.
             [] f.name \in {"sync_count", "async_count"} ->
                  [raised |-> NoError,
                   yields |-> Powers(base, arg.v, arg.v + MaxProduced),
                   returns |-> <<>>, forever |-> TRUE]
             [] OTHER ->
                  [raised |-> NoError, yields |-> <<>>,
                   returns |-> <<IF arg.given THEN base * arg.v ELSE base>>,
                   forever |-> FALSE]

(***************************************************************************)
(* The body of the four closures.                                          *)
(***************************************************************************)
\* Mutant of the closures: the owner bound at access is never used.
func_self_keyword_only(w, kwargs) ==
  IF "self" \in DOMAIN kwargs THEN kwargs["self"] ELSE None

\* kwargs.pop("self") if "self" in kwargs else owner
func_self(w, kwargs) == IF "self" \in DOMAIN kwargs THEN kwargs["self"] ELSE w.owner

\* Mutant of the closures: kwargs["self"] read, not popped.
popped_nothing(kwargs) == kwargs

\* kwargs after the pop.
popped(kwargs) == [k \in DOMAIN kwargs \ {"self"} |-> kwargs[k]]

\* Mutant of the closures: no "if func_self is None" check.
run_body_unchecked(w, args, kwargs) ==
  LET owner == func_self(w, kwargs)
      r == call_function(w.func, owner, args, popped(kwargs))
  IN  [raised |-> r.raised,
       invoked |-> <<[self |-> owner, args |-> args, kwargs |-> popped(kwargs)]>>,
       yields |-> r.yields, returns |-> r.returns]

\* The closure's body up to the first value it hands out: the error raised,
\* the invocations of func it made, and what func goes on to do.
run_body(w, args, kwargs) ==
  LET owner == func_self(w, kwargs)
  IN  IF owner = None
      THEN [raised |-> MissingOwnerError, invoked |-> <<>>, yields |-> <<>>,
            returns |-> <<>>]
      ELSE LET r == call_function(w.func, owner, args, popped(kwargs))
           IN  [raised |-> r.raised,
                invoked |-> <<[self |-> owner, args |-> args, kwargs |-> popped(kwargs)]>>,
                yields |-> r.yields, returns |-> r.returns]

\* Shapes whose call only creates a generator or coroutine object.
Lazy(shape) == shape # "Plain"

(***************************************************************************)
(* State.                                                                  *)
(***************************************************************************)
VARIABLES
  descr,        \* <<>> before the class body ran, then <<the descriptor>>
  memo,         \* the descriptor's _memo: [hash, value]
  nextIdent,    \* identity of the next function object created
  nAccess,      \* __get__ calls started
  ret,          \* the last completed access: its pair, error, wrapper, hit,
                \* inspect predicates evaluated, signature replacements
  lastStoreKey, \* the key of the most recent completed store call
  keyWriter,    \* the ident of the value whose store call wrote memo.hash
  threads,      \* SpecConc: each thread's place in __get__ and its locals
  call,         \* the invocation in progress: phase, wrapper, arguments
  invoked,      \* the invocations of the wrapped function it made
  produced,     \* the values it has handed out so far
  result,       \* how it ended: the error raised, the value returned
  nStore,       \* SpecMemo: store calls made on the memo
  lastStore,    \* SpecMemo: the last store call: its arguments, what it returned
  lastRead,     \* SpecMemo: the last read of value: what it gave
  heap,         \* SpecHeap: each instance's address, 0 unborn, -1 collected
  prevKey,      \* SpecHeap: the key computation before the last one
  lastKey,      \* SpecHeap: the last key computation: its items, the key
  trail,        \* SpecLive: every access so far: its pair, error, wrapper
  held,         \* the instances the caller refers to
  earlier       \* SpecGen: the invocation before the one in progress

vars == <<descr, memo, nextIdent, nAccess, ret, lastStoreKey, keyWriter, threads,
          call, invoked, produced, result, nStore, lastStore, lastRead,
          heap, prevKey, lastKey, trail, held, earlier>>

accessVars == <<memo, nextIdent, nAccess, ret, lastStoreKey, keyWriter>>
callVars == <<call, invoked, produced, result>>
memoVars == <<nStore, lastStore, lastRead>>
heapVars == <<heap, prevKey, lastKey>>
liveVars == <<trail, held>>
genVars == <<earlier>>

NoPair == <<"", "">>
Threads == 1..MaxThreads
\* A thread outside __get__ that has not accessed the descriptor yet.
NoAccess == [pc |-> "idle", pair |-> NoPair, hcurrent |-> NoKey, seen |-> 0,
             result |-> NoValue, raised |-> NoError, returned |-> NoValue,
             torn |-> FALSE]
\* A thread back from __get__: its locals are gone, what it got is kept.
Returned(pair, raised, returned, torn) ==
  [NoAccess EXCEPT !.pair = pair, !.raised = raised, !.returned = returned,
                   !.torn = torn]
NoKwargs == [k \in {} |-> 0]
NoResult == [raised |-> NoError, returns |-> <<>>]
NoCall == [phase |-> "idle", pair |-> NoPair, wrapper |-> NoValue,
           args |-> <<>>, kwargs |-> NoKwargs, pending |-> <<>>]
\* An invocation: the call, the invocations of the wrapped function it made,
\* the values it handed out, how it ended.
Invocation(c, inv, prod, res) ==
  [call |-> c, invoked |-> inv, produced |-> prod, result |-> res]
NoInvocation == Invocation(NoCall, <<>>, <<>>, NoResult)

\* No store call yet, no read of value yet.
NoStore == [key |-> NoKey, val |-> NoValue, returned |-> NoValue]
NoRead == [called |-> FALSE, stores |-> 0, stored |-> NoValue,
           raised |-> NoError, val |-> NoValue]
\* No key computed yet.
NoKeyComputed == [computed |-> FALSE, items |-> <<>>, ids |-> <<>>, key |-> NoKey,
                  alive |-> FALSE]

Init ==
  /\ descr = <<>>
  /\ memo = IdMemo
  /\ nextIdent = 1
  /\ nAccess = 0
  /\ ret = [pair |-> NoPair, raised |-> NoError, wrapper |-> NoValue, hit |-> FALSE,
            probes |-> <<>>, rewrites |-> 0]
  /\ lastStoreKey = NoKey
  /\ keyWriter = 0
  /\ threads = [t \in Threads |-> NoAccess]
  /\ call = NoCall
  /\ invoked = <<>>
  /\ produced = <<>>
  /\ result = NoResult
  /\ nStore = 0
  /\ lastStore = NoStore
  /\ lastRead = NoRead
  /\ heap = [o \in HeapInstances |-> 0]
  /\ prevKey = NoKeyComputed
  /\ lastKey = NoKeyComputed
  /\ trail = <<>>
  /\ held = {}
  /\ earlier = NoInvocation

\* The class body applies @selfdependent(factory) to a method.
Decorate(factory, func) ==
  /\ descr = <<>>
  /\ descr' = <<selfdependent(factory, func)>>
  /\ UNCHANGED <<accessVars, threads, callVars>>
  /\ UNCHANGED <<memoVars, heapVars, liveVars, genVars>>

\* One attribute access, start to finish.  The caller is a single thread
\* evaluating obj.method(...): it accesses the attribute, calls what it got
\* and consumes the result; at its next access it holds nothing of the
\* earlier call.
Get(owner, obj_type) ==
  /\ descr # <<>>
  /\ nAccess < MaxAccesses
  /\ LET r == descriptor_get(descr[1], memo, owner, obj_type, nextIdent)
     IN  /\ memo' = r.memo
         /\ ret' = [pair |-> <<owner, obj_type>>, raised |-> r.raised,
                    wrapper |-> r.wrapper, hit |-> r.hit,
                    probes |-> r.probes, rewrites |-> r.rewrites]
         /\ nextIdent' = IF r.hit THEN nextIdent ELSE nextIdent + 1
         /\ lastStoreKey' = IF r.stored # NoKey THEN r.stored ELSE lastStoreKey
         /\ keyWriter' = IF r.stored # NoKey THEN r.wrapper.ident ELSE keyWriter
  /\ nAccess' = nAccess + 1
  /\ call' = NoCall
  /\ invoked' = <<>>
  /\ produced' = <<>>
  /\ result' = NoResult
  /\ UNCHANGED <<descr, threads>>
  /\ UNCHANGED <<memoVars, heapVars, liveVars, genVars>>

\* The keyword arguments a caller passes: the function's own parameters and
\* self, each present or not.
KeywordNames(f) == {f.params[k].name : k \in 2..Len(f.params)}
NumberKwargs(f) == UNION {[names -> ArgValues] : names \in SUBSET KeywordNames(f)}
WithSelf(kwargs, o) ==
  [k \in DOMAIN kwargs \cup {"self"} |-> IF k = "self" THEN o ELSE kwargs[k]]
CallKwargs ==
  IF descr = <<>> THEN {}
  ELSE LET numbers == NumberKwargs(descr[1].wrapped)
       IN  numbers \cup {WithSelf(kw, o) : kw \in numbers, o \in Owners}
CallArgs == {<<>>} \cup {<<v>> : v \in ArgValues}

\* do(*args, **kwargs) on the wrapper the last access returned.  A Plain
\* wrapper runs its body; the other shapes return an object that has run
\* nothing yet.
CallWrapper(args, kwargs) ==
  /\ ret.raised = NoError /\ ret.wrapper # NoValue
  /\ call.phase = "idle"
  /\ LET w == ret.wrapper
         started == [phase |-> "created", pair |-> ret.pair, wrapper |-> w,
                     args |-> args, kwargs |-> kwargs, pending |-> <<>>]
     IN  IF Lazy(w.shape)
         THEN /\ call' = started
              /\ invoked' = <<>>
              /\ produced' = <<>>
              /\ result' = NoResult
         ELSE LET r == run_body(w, args, kwargs)
              IN  /\ call' = [started EXCEPT !.phase = "done"]
                  /\ invoked' = r.invoked
                  /\ produced' = <<>>
                  /\ result' = [raised |-> r.raised, returns |-> r.returns]
  /\ UNCHANGED <<descr, accessVars, threads>>
  /\ UNCHANGED <<memoVars, heapVars, liveVars, genVars>>

\* Mutant of the generator closures: yield next(func(...)), the first value
\* only.
resumed_first_only(inv) ==
  LET c == inv.call
      r == run_body(c.wrapper, c.args, c.kwargs)
      first == c.phase = "created"
  IN  IF first /\ r.raised = NoError /\ r.yields # <<>>
      THEN Invocation([c EXCEPT !.phase = "suspended", !.pending = <<>>],
                      r.invoked, <<Head(r.yields)>>, inv.result)
      ELSE Invocation([c EXCEPT !.phase = "done", !.pending = <<>>],
                      IF first THEN r.invoked ELSE inv.invoked, inv.produced,
                      [raised |-> IF first THEN r.raised ELSE NoError,
                       returns |-> IF first /\ c.wrapper.shape = "Coroutine"
                                   THEN r.returns ELSE <<>>])

\* next(), await or anext() on the object a lazy wrapper returned: the
\* invocation afterwards.  The first one runs the closure's body; a generator
\* then hands out one value per resumption and ends when the wrapped
\* generator ends.
resumed(inv) ==
  LET c == inv.call
      w == c.wrapper
      r == run_body(w, c.args, c.kwargs)
      first == c.phase = "created"
      pending == IF first THEN r.yields ELSE c.pending
      failed == first /\ r.raised # NoError
  IN  IF failed \/ pending = <<>>
      THEN Invocation([c EXCEPT !.phase = "done", !.pending = <<>>],
                      IF first THEN r.invoked ELSE inv.invoked, inv.produced,
                      [raised |-> IF first THEN r.raised ELSE NoError,
                       returns |-> IF first /\ w.shape = "Coroutine"
                                   THEN r.returns ELSE <<>>])
      ELSE Invocation([c EXCEPT !.phase = "suspended", !.pending = Tail(pending)],
                      IF first THEN r.invoked ELSE inv.invoked,
                      Append(inv.produced, Head(pending)), inv.result)

\* The caller resumes an object that has not ended, and takes at most
\* MaxProduced values from it.
Resumable(inv) ==
  /\ inv.call.phase \in {"created", "suspended"}
  /\ Len(resumed(inv).produced) <= MaxProduced

\* The invocation in progress.
Current == Invocation(call, invoked, produced, result)

\* next(), await or anext() on the object the invocation in progress returned.
Resume ==
  /\ Resumable(Current)
  /\ LET n == resumed(Current)
     IN  /\ call' = n.call
         /\ invoked' = n.invoked
         /\ produced' = n.produced
         /\ result' = n.result
  /\ UNCHANGED <<descr, accessVars, threads>>
  /\ UNCHANGED <<memoVars, heapVars, liveVars, genVars>>

Next ==
  \/ \E factory \in Factories, func \in WrappedFunctions : Decorate(factory, func)
  \/ \E p \in AccessPairs : Get(p[1], p[2])
  \/ \E args \in CallArgs, kwargs \in CallKwargs : CallWrapper(args, kwargs)
  \/ Resume

Spec == Init /\ [][Next]_vars

(***************************************************************************)
(* Concurrent accesses.  Threads run __get__ on the one descriptor with no *)
(* lock; a thread can be preempted between any two of its reads and writes *)
(* of the memo.                                                            *)
(***************************************************************************)
\* Lines 160-161: memo = self._memo; hcurrent = memo.hash(owner, obj_type).
Begin(t, owner, obj_type) ==
  /\ descr # <<>>
  /\ nAccess < MaxAccesses
  /\ threads[t].pc = "idle"
  /\ nAccess' = nAccess + 1
  /\ threads' = [threads EXCEPT ![t] =
       [NoAccess EXCEPT !.pc = "check", !.pair = <<owner, obj_type>>,
                        !.hcurrent = memo_hash[<<owner, obj_type>>]]]
  /\ UNCHANGED <<descr, memo, nextIdent, ret, lastStoreKey, keyWriter, callVars>>
  /\ UNCHANGED <<memoVars, heapVars, liveVars, genVars>>

\* Line 162: if hcurrent in memo.  The thread notes whose key it found.
Check(t) ==
  /\ threads[t].pc = "check"
  /\ threads' = [threads EXCEPT ![t] =
       IF contains(memo, @.hcurrent)
       THEN [@ EXCEPT !.pc = "read", !.seen = keyWriter]
       ELSE [@ EXCEPT !.pc = "build"]]
  /\ UNCHANGED <<descr, accessVars, callVars>>
  /\ UNCHANGED <<memoVars, heapVars, liveVars, genVars>>

\* Line 163: return self._memo.value.
ReadValue(t) ==
  /\ threads[t].pc = "read"
  /\ LET v == value(memo)
     IN  threads' = [threads EXCEPT ![t] =
           Returned(@.pair, v.raised, v.val, memo.value.ident # @.seen)]
  /\ UNCHANGED <<descr, accessVars, callVars>>
  /\ UNCHANGED <<memoVars, heapVars, liveVars, genVars>>

\* Lines 165-183: build the wrapper and rewrite its signature; nothing shared
\* is read or written.
Build(t) ==
  /\ threads[t].pc = "build"
  /\ LET b == build(descr[1], threads[t].pair[1], threads[t].pair[2], nextIdent)
     IN  threads' = [threads EXCEPT ![t] =
           IF b.raised # NoError
           THEN Returned(@.pair, b.raised, NoValue, FALSE)
           ELSE [@ EXCEPT !.pc = "store_hash", !.result = b.func]]
  /\ nextIdent' = nextIdent + 1
  /\ UNCHANGED <<descr, memo, nAccess, ret, lastStoreKey, keyWriter, callVars>>
  /\ UNCHANGED <<memoVars, heapVars, liveVars, genVars>>

\* IdMemo.store: self._hash = key.
StoreHash(t) ==
  /\ threads[t].pc = "store_hash"
  /\ memo' = store_hash(memo, threads[t].hcurrent)
  /\ keyWriter' = threads[t].result.ident
  /\ threads' = [threads EXCEPT ![t].pc = "store_value"]
  /\ UNCHANGED <<descr, nextIdent, nAccess, ret, lastStoreKey, callVars>>
  /\ UNCHANGED <<memoVars, heapVars, liveVars, genVars>>

\* IdMemo.store: self._value = value; return value.
StoreValue(t) ==
  /\ threads[t].pc = "store_value"
  /\ memo' = store_value(memo, threads[t].result)
  /\ lastStoreKey' = threads[t].hcurrent
  /\ threads' = [threads EXCEPT ![t] = Returned(@.pair, NoError, @.result, FALSE)]
  /\ UNCHANGED <<descr, nextIdent, nAccess, ret, keyWriter, callVars>>
  /\ UNCHANGED <<memoVars, heapVars, liveVars, genVars>>

NextConc ==
  \/ \E factory \in Factories, func \in WrappedFunctions : Decorate(factory, func)
  \/ \E t \in Threads, p \in AccessPairs : Begin(t, p[1], p[2])
  \/ \E t \in Threads : Check(t)
  \/ \E t \in Threads : ReadValue(t)
  \/ \E t \in Threads : Build(t)
  \/ \E t \in Threads : StoreHash(t)
  \/ \E t \in Threads : StoreValue(t)

SpecConc == Init /\ [][NextConc]_vars

(***************************************************************************)
(* The memo on its own: IdMemo is a generic class, any caller can store    *)
(* any value in it, None included.                                         *)
(***************************************************************************)
\* The values stored: None, and wrappers.
MemoValues ==
  {NoValue} \cup
  {build_wrapper(f, o, 1) :
     f \in {g \in WrappedFunctions : g.name \in {"sync_method", "async_generator"}},
     o \in Owners}

\* memo.store(key, val)
MemoStore(key, val) ==
  /\ nStore < MaxStores
  /\ memo' = store(memo, key, val)
  /\ lastStore' = [key |-> key, val |-> val, returned |-> store_returns(memo, key, val)]
  /\ nStore' = nStore + 1
  /\ UNCHANGED <<descr, nextIdent, nAccess, ret, lastStoreKey, keyWriter, threads,
                 callVars, lastRead, heapVars, liveVars, genVars>>

\* memo.value, after nStore store calls of which the last stored lastStore.val.
MemoValue ==
  /\ LET v == value(memo)
     IN  lastRead' = [called |-> TRUE, stores |-> nStore, stored |-> lastStore.val,
                      raised |-> v.raised, val |-> v.val]
  /\ UNCHANGED <<descr, accessVars, threads, callVars, nStore, lastStore, heapVars,
                 liveVars, genVars>>

NextMemo ==
  \/ \E key \in {memo_hash[p] : p \in AccessPairs}, val \in MemoValues : MemoStore(key, val)
  \/ MemoValue

SpecMemo == Init /\ [][NextMemo]_vars

(***************************************************************************)
(* Key computation over the life of objects.                               *)
(***************************************************************************)
\* The instances not yet created, in the order they will be.
Unborn == {i \in 1..MaxCreated : heap[CreationOrder[i]] = 0}

\* An instance is created, at any free address; the caller refers to it.
New(address) ==
  /\ Unborn # {}
  /\ \A o \in HeapInstances : heap[o] # address
  /\ LET i == CHOOSE j \in Unborn : \A k \in Unborn : j <= k
     IN  /\ heap' = [heap EXCEPT ![CreationOrder[i]] = address]
         /\ held' = held \cup {CreationOrder[i]}
  /\ UNCHANGED <<descr, accessVars, threads, callVars, memoVars, prevKey, lastKey,
                 trail, genVars>>

\* The heap after the objects in freed, which nothing refers to any more, are
\* collected.
collected(h, freed) == [o \in DOMAIN h |-> IF o \in freed THEN -1 ELSE h[o]]

\* The last reference to an instance is dropped: the instance is collected.
Collect(o) ==
  /\ heap[o] > 0
  /\ heap' = collected(heap, {o})
  /\ held' = held \ {o}
  /\ UNCHANGED <<descr, accessVars, threads, callVars, memoVars, prevKey, lastKey,
                 trail, genVars>>

\* The items a key is computed from: (owner, obj_type) as __get__ passes
\* them, and the same two objects the other way round.
KeyItems ==
  LET owners == {o \in HeapInstances : heap[o] > 0} \cup {None}
  IN  {<<o, c>> : o \in owners, c \in Classes} \cup
      {<<c, o>> : o \in owners, c \in Classes}

\* memo.hash(*items).  The computation before it is kept, with whether its
\* items are all still alive now.
ComputeKey(items) ==
  /\ lastKey' = [computed |-> TRUE, items |-> items,
                 ids |-> <<id_in(heap, items[1]), id_in(heap, items[2])>>,
                 key |-> hash_in(heap, items), alive |-> TRUE]
  /\ prevKey' = [lastKey EXCEPT
                   !.alive = lastKey.computed /\ \A i \in 1..Len(lastKey.items) :
                                                   Alive(heap, lastKey.items[i])]
  /\ UNCHANGED <<descr, accessVars, threads, callVars, memoVars, heap, liveVars,
                 genVars>>

NextHeap ==
  \/ \E address \in InstanceAddresses : New(address)
  \/ \E o \in HeapInstances : Collect(o)
  \/ \E items \in KeyItems : ComputeKey(items)

SpecHeap == Init /\ [][NextHeap]_vars

(***************************************************************************)
(* Sequential accesses over the life of objects.  The wrapper in the memo  *)
(* refers to its owner (the closure's owner) and to the type (the self     *)
(* parameter's annotation), so an instance whose wrapper is in the memo    *)
(* lives on after the caller has dropped it, until a store replaces the    *)
(* wrapper: the instance is then collected inside the access.              *)
(***************************************************************************)
\* Whether the value of memo m refers to o.
refers(m, o) == m.value # NoValue /\ m.value.owner = o

\* Whether the memo's value refers to o.
MemoRefers(o) == refers(memo, o)

\* The caller drops its references to an instance, the wrappers it got through
\* it included; the instance is collected unless the memo's wrapper still
\* refers to it.
Release(o) ==
  /\ o \in held
  /\ held' = held \ {o}
  /\ heap' = IF MemoRefers(o) THEN heap ELSE collected(heap, {o})
  /\ UNCHANGED <<descr, accessVars, threads, callVars, memoVars, prevKey, lastKey,
                 trail, genVars>>

\* The pairs attribute access hands to __get__: through a class, or through
\* an instance the caller refers to.
LivePairs ==
  {<<None, c>> : c \in Classes} \cup {<<o, TypeOf(o)>> : o \in held}

\* The instances that only the value of memo old kept alive and that the
\* value of memo new does not refer to: self._value = value frees them.
unreferenced(old, new) ==
  {o \in HeapInstances : heap[o] > 0 /\ o \notin held /\ refers(old, o) /\ ~refers(new, o)}

\* One attribute access, start to finish, in the current heap.
GetLive(owner, obj_type) ==
  /\ descr # <<>>
  /\ nAccess < MaxAccesses
  /\ LET r == descriptor_get_in(heap, descr[1], memo, owner, obj_type, nextIdent)
     IN  /\ memo' = r.memo
         /\ ret' = [pair |-> <<owner, obj_type>>, raised |-> r.raised,
                    wrapper |-> r.wrapper, hit |-> r.hit,
                    probes |-> r.probes, rewrites |-> r.rewrites]
         /\ nextIdent' = IF r.hit THEN nextIdent ELSE nextIdent + 1
         /\ lastStoreKey' = IF r.stored # NoKey THEN r.stored ELSE lastStoreKey
         /\ keyWriter' = IF r.stored # NoKey THEN r.wrapper.ident ELSE keyWriter
         /\ heap' = collected(heap, unreferenced(memo, r.memo))
  /\ nAccess' = nAccess + 1
  /\ trail' = Append(trail, ret')
  /\ UNCHANGED <<descr, threads, callVars, memoVars, prevKey, lastKey, held, genVars>>

NextLive ==
  \/ \E factory \in Factories, func \in WrappedFunctions : Decorate(factory, func)
  \/ \E address \in InstanceAddresses : New(address)
  \/ \E o \in HeapInstances : Release(o)
  \/ \E p \in LivePairs : GetLive(p[1], p[2])

SpecLive == Init /\ [][NextLive]_vars

(***************************************************************************)
(* Two sequences of one generator wrapper.  A caller that holds the        *)
(* sequence an invocation returned invokes the same wrapper again, and     *)
(* iterates the two in any order.                                          *)
(***************************************************************************)
Generators == {"SyncGenerator", "AsyncGenerator"}

\* do(*args, **kwargs) again on the wrapper of the invocation in progress,
\* whose sequence the caller keeps.
CallAgain(args, kwargs) ==
  /\ call.phase # "idle"
  /\ call.wrapper.shape \in Generators
  /\ earlier = NoInvocation
  /\ earlier' = Current
  /\ call' = [phase |-> "created", pair |-> call.pair, wrapper |-> call.wrapper,
              args |-> args, kwargs |-> kwargs, pending |-> <<>>]
  /\ invoked' = <<>>
  /\ produced' = <<>>
  /\ result' = NoResult
  /\ UNCHANGED <<descr, accessVars, threads, memoVars, heapVars, liveVars>>

\* next() or anext() on the sequence the earlier invocation returned.
ResumeEarlier ==
  /\ Resumable(earlier)
  /\ earlier' = resumed(earlier)
  /\ UNCHANGED <<descr, accessVars, threads, callVars, memoVars, heapVars, liveVars>>

\* The first access of the descriptor.
GetFirst(owner, obj_type) ==
  /\ nAccess = 0
  /\ Get(owner, obj_type)

\* The keyword arguments of these callers: the function's own parameters.
OwnKwargs == IF descr = <<>> THEN {} ELSE NumberKwargs(descr[1].wrapped)

NextGen ==
  \/ \E factory \in Factories, func \in WrappedFunctions : Decorate(factory, func)
  \/ \E p \in AccessPairs : GetFirst(p[1], p[2])
  \/ \E args \in CallArgs, kwargs \in OwnKwargs : CallWrapper(args, kwargs)
  \/ \E args \in CallArgs, kwargs \in OwnKwargs : CallAgain(args, kwargs)
  \/ Resume
  \/ ResumeEarlier

SpecGen == Init /\ [][NextGen]_vars

(***************************************************************************)
(* Properties.                                                             *)
(***************************************************************************)
\* The type the wrapper's self parameter is declared with.
SelfType(w) == signature(w)[1].annotation.type

\* A thread that is back from __get__ with a wrapper.
Got(t) == threads[t].pc = "idle" /\ threads[t].returned # NoValue

\* C1: under concurrent accesses every access returns a wrapper that was built
\* for its own accessing instance and type.
C1_OwnWrapperConc ==
  \A t \in Threads :
    Got(t) => /\ threads[t].returned.owner = threads[t].pair[1]
              /\ SelfType(threads[t].returned) = threads[t].pair[2]

\* C2: an access with the same (instance, type) pair as the access before it
\* returns the identical wrapper object.
C2_RepeatedAccessSameWrapper ==
  [][(/\ nAccess' = nAccess + 1
      /\ ret.raised = NoError /\ ret.wrapper # NoValue
      /\ ret'.pair = ret.pair)
     => (ret'.raised = NoError /\ ret'.wrapper = ret.wrapper)]_vars

C2_Witness ==
  /\ nAccess >= 2 /\ ret.hit /\ ret.raised = NoError
  /\ ret.wrapper # NoValue /\ ret.wrapper = memo.value

\* What calling the original method directly gives: func(owner, *args, **kwargs).
Direct(owner) == call_function(call.wrapper.func, owner, call.args, call.kwargs)

IsPrefix(a, b) == Len(a) <= Len(b) /\ \A i \in 1..Len(a) : a[i] = b[i]

\* C3: for every shape, the wrapper obtained on instance A, called without a
\* self keyword, gives what the original method gives when called on A with
\* the same arguments: the same error or return value and the same produced
\* values, in order.
C3_WrapperAsDirectCall ==
  (/\ call.phase # "idle"
   /\ call.pair[1] \in Instances
   /\ "self" \notin DOMAIN call.kwargs)
  => LET direct == Direct(call.pair[1])
     IN  /\ IsPrefix(produced, direct.yields)
         /\ call.phase = "done" =>
              /\ result = [raised |-> direct.raised, returns |-> direct.returns]
              /\ produced = direct.yields

C3_Witness ==
  /\ call.phase = "done" /\ call.wrapper.shape = "AsyncGenerator"
  /\ call.pair[1] \in Instances /\ "self" \notin DOMAIN call.kwargs
  /\ Len(produced) = 2 /\ result.raised = NoError

\* The keywords of the call without self.
OtherKwargs == [k \in DOMAIN call.kwargs \ {"self"} |-> call.kwargs[k]]

\* The closure's body has run: a Plain call is over, a lazy one was resumed.
BodyRan == call.phase \in {"suspended", "done"}

\* C4 as stated: with self=X the wrapped function is invoked with X as its
\* first argument and without the self keyword, whatever X is.
C4_SelfKeywordAnyValue ==
  (BodyRan /\ "self" \in DOMAIN call.kwargs)
  => invoked = <<[self |-> call.kwargs["self"], args |-> call.args,
                  kwargs |-> OtherKwargs]>>

\* C4 amended: with self=X and X not None, the wrapped function is invoked
\* once, with X as its first argument, the same positional arguments and the
\* keywords without self, whether or not the wrapper has a bound owner, and
\* the call gives what the original method gives on X; with self=None the call
\* fails with MissingOwnerError and the wrapped function is not invoked, even
\* when the wrapper has a bound owner.
C4_SelfKeywordOverrides ==
  (BodyRan /\ "self" \in DOMAIN call.kwargs)
  => LET X == call.kwargs["self"]
         direct == call_function(call.wrapper.func, X, call.args, OtherKwargs)
     IN  IF X = None
         THEN /\ invoked = <<>> /\ produced = <<>>
              /\ result = [raised |-> MissingOwnerError, returns |-> <<>>]
         ELSE /\ invoked = <<[self |-> X, args |-> call.args, kwargs |-> OtherKwargs]>>
              /\ IsPrefix(produced, direct.yields)
              /\ call.phase = "done" =>
                   /\ result = [raised |-> direct.raised, returns |-> direct.returns]
                   /\ produced = direct.yields

C4_Witness ==
  /\ call.phase = "done" /\ "self" \in DOMAIN call.kwargs
  /\ call.kwargs["self"] \in Instances
  /\ call.wrapper.owner \in Instances
  /\ call.wrapper.owner # call.kwargs["self"]
  /\ invoked # <<>> /\ invoked[1].self = call.kwargs["self"]
  /\ result.raised = NoError

\* A wrapper obtained through the type, called without a self keyword.
NoOwnerCall ==
  /\ call.phase # "idle"
  /\ call.pair[1] = None
  /\ "self" \notin DOMAIN call.kwargs

\* C5 as stated: the call itself fails with MissingOwnerError.
C5_MissingOwnerAtCall ==
  NoOwnerCall => (result.raised = MissingOwnerError /\ invoked = <<>>)

\* C5 amended: a Plain wrapper fails with MissingOwnerError at the call; for
\* the other three shapes the call returns a coroutine or generator object
\* without an error, and MissingOwnerError is raised when that object is first
\* awaited or iterated; in every shape the wrapped function is never invoked
\* and no value is produced.
C5_MissingOwnerWhenRun ==
  NoOwnerCall =>
    /\ invoked = <<>> /\ produced = <<>>
    /\ call.phase \in {"created", "done"}
    /\ call.phase = "created" => (Lazy(call.wrapper.shape) /\ result = NoResult)
    /\ call.phase = "done" => result = [raised |-> MissingOwnerError, returns |-> <<>>]

C5_Witness ==
  /\ NoOwnerCall /\ call.phase = "done"
  /\ call.wrapper.shape = "SyncGenerator"
  /\ result.raised = MissingOwnerError

\* C6: no access fails with EmptyMemoError, in any interleaving.
C6_NoEmptyMemoErrorConc ==
  \A t \in Threads : threads[t].raised # EmptyMemoError

\* C7: no reader that found its key in the memo then reads a value another
\* store call (or the initial state) put there.
C7_NoTornReadConc ==
  \A t \in Threads : ~threads[t].torn

RECURSIVE Without(_, _)
\* The parameters not named name, in order.
Without(parameters, name) ==
  IF parameters = <<>> THEN <<>>
  ELSE IF Head(parameters).name = name THEN Without(Tail(parameters), name)
  ELSE <<Head(parameters)>> \o Without(Tail(parameters), name)

\* C8: on a cache miss the returned wrapper's parameters are the new self
\* parameter, declared with the accessing type and injected from the factory
\* if one was given and from the type otherwise, followed by every other
\* parameter of the wrapped function, unchanged and in the original order.
\* It fails for a factory that is given and false: Depends(factory or type)
\* then names the type.
C8_SelfParameterReplaced ==
  (ret.raised = NoError /\ ~ret.hit /\ ret.wrapper # NoValue)
  => LET new == signature(ret.wrapper)
         old == descr[1].wrapped.params
         factory == descr[1].factory
     IN  /\ Len(new) = Len(old)
         /\ new[1] = [name |-> "self", kind |-> "POSITIONAL_OR_KEYWORD",
                      default |-> FALSE,
                      annotation |->
                        [type |-> ret.pair[2],
                         depends |-> IF factory = None THEN ret.pair[2]
                                     ELSE factory]]
         /\ Tail(new) = Without(old, "self")

\* C9: a method with no self parameter is decorated without an error, and
\* the accesses of the resulting descriptor fail with NoSelfParameterError,
\* from the first one on.
C9_NoSelfFailsOnAccess ==
  (descr # <<>> /\ ~HasParameter(descr[1].wrapped.params, "self"))
  => /\ nAccess = 0 => (ret.raised = NoError /\ memo = IdMemo)
     /\ nAccess >= 1 => (ret.raised = NoSelfParameterError /\ ret.wrapper = NoValue)

C9_Witness ==
  /\ descr # <<>> /\ descr[1].wrapped.name = "no_self"
  /\ nAccess = 1 /\ ret.raised = NoSelfParameterError

\* The keys __get__ can compute.
Keys == {memo_hash[items] : items \in Owners \X Classes}

\* C10: contains(k) is true exactly for the key of the most recent store, and
\* for no key on a fresh memo.
C10_SingleSlot ==
  \A k \in Keys : contains(memo, k) <=> (lastStoreKey # NoKey /\ k = lastStoreKey)

C10_Witness ==
  /\ memo.value # NoValue /\ memo.value.ident >= 2
  /\ lastStoreKey = memo_hash[ret.pair] /\ ~ret.hit
  /\ \E k \in Keys : k # lastStoreKey /\ ~contains(memo, k)

\* C11: value fails with EmptyMemoError exactly when no store call was ever
\* made on the memo; after a store call, with any value v, value returns v;
\* and store returns the value it was given.
C11_ValueAfterAnyStore ==
  /\ lastStore.returned = lastStore.val
  /\ lastRead.called =>
       /\ (lastRead.raised = EmptyMemoError) <=> (lastRead.stores = 0)
       /\ lastRead.stores > 0 =>
            (lastRead.raised = NoError /\ lastRead.val = lastRead.stored)

\* Both computations were made.
TwoKeys == prevKey.computed /\ lastKey.computed

\* C12 as stated: two key computations give the same key exactly when their
\* items are the same objects, in the same order.
C12_SameKeyIffSameObjects ==
  TwoKeys => ((prevKey.key = lastKey.key) <=> (prevKey.items = lastKey.items))

\* C12 amended: two key computations give the same key when their items have
\* the same addresses (id()) in the same order, and, for every pair of
\* addresses of the model, only then; when the items of the earlier one are
\* all still alive at the later one, that is exactly when the items are the
\* same objects in the same order.  An instance created at the address of a
\* collected one computes the collected one's key.
C12_SameKeyIffSameIds ==
  TwoKeys =>
    /\ (prevKey.key = lastKey.key) <=> (prevKey.ids = lastKey.ids)
    /\ prevKey.alive =>
         ((prevKey.key = lastKey.key) <=> (prevKey.items = lastKey.items))
    /\ (~prevKey.alive /\ prevKey.ids = lastKey.ids) => prevKey.key = lastKey.key

C12_Witness ==
  /\ TwoKeys /\ prevKey.alive
  /\ prevKey.items = <<"foo1", "Foo">> /\ lastKey.items = <<"foo2", "Foo">>
  /\ prevKey.key # lastKey.key
  /\ \E o \in HeapInstances : heap[o] = -1

\* C13: in a sequential series of accesses every access returns a wrapper
\* whose bound owner is the access's accessing instance (None through the
\* type) and whose self parameter is declared with the access's type; and the
\* key in a non-empty memo is the key of the (instance, type) pair its wrapper
\* was built for.
C13_OwnWrapperSequential ==
  /\ (ret.raised = NoError /\ ret.wrapper # NoValue)
       => /\ ret.wrapper.owner = ret.pair[1]
          /\ SelfType(ret.wrapper) = ret.pair[2]
  /\ memo.value # NoValue
       => memo.hash = hash_in(heap, <<memo.value.owner, SelfType(memo.value)>>)

\* A hit on the wrapper of foo2, after foo1 was collected.
C13_Witness ==
  /\ ret.hit /\ ret.raised = NoError /\ ret.pair = <<"foo2", "Foo">>
  /\ ret.wrapper.owner = "foo2"
  /\ heap["foo1"] = -1 /\ nAccess = MaxAccesses

\* Access k is an access with the pair of the earlier access i, which returned
\* a wrapper, and directly follows an access with another pair.
Returns(i, k) ==
  /\ i < k - 1
  /\ trail[i].pair = trail[k].pair
  /\ trail[i].raised = NoError
  /\ trail[k - 1].pair # trail[k].pair

\* C14: after an access with pair P and then an access with a different pair
\* Q, the next access with P is a miss: it builds a wrapper that is a new
\* object, distinct from the one first returned for P and from every wrapper
\* returned before, and stores it; and every access that follows an access
\* with another pair is a miss.
C14_OnlyMostRecentPair ==
  \A k \in 2..Len(trail) :
    /\ trail[k - 1].pair # trail[k].pair => ~trail[k].hit
    /\ \A i \in 1..(k - 2) :
         Returns(i, k) =>
           /\ ~trail[k].hit /\ trail[k].raised = NoError
           /\ \A j \in 1..(k - 1) : trail[j].wrapper.ident # trail[k].wrapper.ident
           /\ k = Len(trail) => memo.value = trail[k].wrapper

C14_Witness ==
  /\ Len(trail) = 3 /\ Returns(1, 3)
  /\ trail[1].pair[1] \in HeapInstances /\ trail[2].pair[1] \in HeapInstances
  /\ trail[1].wrapper.owner = trail[3].wrapper.owner
  /\ trail[1].wrapper.ident = 1 /\ trail[3].wrapper.ident = 3

\* A step that is one whole access.
AccessStep == nAccess' = nAccess + 1

\* C15: an access that finds its key in the memo leaves the memo's key and
\* value as they were, creates no wrapper, evaluates no inspect predicate on
\* the wrapped function and replaces no signature; it returns the memo's
\* value with the parameters it had.
C15_HitChangesNothing ==
  [][(AccessStep /\ ret'.hit)
     => /\ memo' = memo
        /\ nextIdent' = nextIdent
        /\ ret'.probes = <<>> /\ ret'.rewrites = 0
        /\ ret'.wrapper = memo.value
        /\ signature(ret'.wrapper) = signature(memo.value)]_vars

C15_Witness ==
  /\ ret.hit /\ ret.raised = NoError /\ ret.pair[1] = None
  /\ nAccess = 2 /\ nextIdent = 2 /\ memo.value.ident = 1
  /\ ret.probes = <<>> /\ ret.rewrites = 0

\* The order in which a miss asks what the wrapped function is.
ProbeOrder == <<"isgeneratorfunction", "isasyncgenfunction", "iscoroutinefunction">>

\* The shape of a function, by how it is declared.
ShapeOf(f) ==
  CASE f.decl = "def yield" -> "SyncGenerator"
    [] f.decl = "async def yield" -> "AsyncGenerator"
    [] f.decl = "async def" -> "Coroutine"
    [] OTHER -> "Plain"

\* C16: a miss asks, in this order, whether the wrapped function is a
\* generator function, an async-generator function, a coroutine function, and
\* stops at the first that it is; the wrapper it builds has the one shape of
\* the function: SyncGenerator, AsyncGenerator, Coroutine, or Plain when it is
\* none of the three.
C16_ShapeByFixedOrder ==
  (nAccess >= 1 /\ ~ret.hit)
  => LET f == descr[1].wrapped
         shape == ShapeOf(f)
     IN  /\ IsPrefix(ret.probes, ProbeOrder)
         /\ Len(ret.probes) = CASE shape = "SyncGenerator" -> 1
                                 [] shape = "AsyncGenerator" -> 2
                                 [] OTHER -> 3
         /\ ret.raised = NoError =>
              /\ ret.wrapper.shape = shape
              /\ memo.value.shape = shape
              /\ Cardinality({sh \in {"Plain", "SyncGenerator", "Coroutine", "AsyncGenerator"} :
                                ret.wrapper.shape = sh}) = 1

C16_Witness ==
  /\ nAccess >= 1 /\ ~ret.hit /\ ret.raised = NoError
  /\ descr[1].wrapped.decl = "async def yield"
  /\ ret.wrapper.shape = "AsyncGenerator" /\ Len(ret.probes) = 2

\* C18: an access that fails with NoSelfParameterError leaves the memo as it
\* was; when the wrapped function has no self parameter, the memo is empty
\* before and after every access and every access fails with
\* NoSelfParameterError.
C18_FailedAccessStoresNothing ==
  [][AccessStep
     => /\ ret'.raised = NoSelfParameterError => memo' = memo
        /\ ~HasParameter(descr[1].wrapped.params, "self")
             => /\ ret'.raised = NoSelfParameterError
                /\ ~ret'.hit /\ ret'.wrapper = NoValue
                /\ memo = IdMemo /\ memo' = IdMemo]_vars

C18_Witness ==
  /\ descr # <<>> /\ ~HasParameter(descr[1].wrapped.params, "self")
  /\ nAccess = MaxAccesses /\ ret.raised = NoSelfParameterError
  /\ memo = IdMemo /\ nextIdent = MaxAccesses + 1

\* What the wrapped generator of an invocation does when called directly on
\* the owner the closure resolves.
DirectOf(inv) ==
  call_function(inv.call.wrapper.func, func_self(inv.call.wrapper, inv.call.kwargs),
                inv.call.args, popped(inv.call.kwargs))

\* An invocation of a generator wrapper with an owner: nothing has run
\* before the first resumption; the values handed out are the first values of
\* the wrapped generator, in order, the values still to come are its
\* remaining ones, and the sequence has ended exactly if the wrapped
\* generator, which then is not an unending one, has.
Forwards(inv) ==
  LET c == inv.call
      direct == DirectOf(inv)
  IN  /\ c.phase = "created" =>
           (inv.invoked = <<>> /\ inv.produced = <<>> /\ inv.result = NoResult)
      /\ IsPrefix(inv.produced, direct.yields)
      /\ c.phase = "suspended" =>
           (inv.produced # <<>> /\ inv.produced \o c.pending = direct.yields)
      /\ c.phase = "done" =>
           /\ inv.produced = direct.yields
           /\ inv.result = [raised |-> direct.raised, returns |-> <<>>]
           /\ ~direct.forever
      /\ (direct.forever /\ c.phase # "created") =>
           (c.phase = "suspended" /\ c.pending # <<>>)

\* An invocation of a generator wrapper for which the closure has an owner.
OfGenerator(inv) ==
  /\ inv.call.phase # "idle"
  /\ inv.call.wrapper.shape \in Generators
  /\ func_self(inv.call.wrapper, inv.call.kwargs) # None

\* C17: every invocation of a SyncGenerator or AsyncGenerator wrapper returns
\* a sequence of its own that runs nothing of the wrapped generator until it
\* is iterated and then hands out every value the wrapped generator produces,
\* in the same order, ending exactly when the wrapped generator ends; a second
\* invocation of the same wrapper does not disturb the first one's sequence.
C17_GeneratorForwards ==
  /\ OfGenerator(Current) => Forwards(Current)
  /\ OfGenerator(earlier) => Forwards(earlier)

C17_Witness ==
  /\ OfGenerator(Current) /\ OfGenerator(earlier)
  /\ call.wrapper = earlier.call.wrapper
  /\ call.wrapper.shape = "AsyncGenerator"
  /\ call.phase = "done" /\ Len(produced) = 3
  /\ earlier.call.phase = "suspended" /\ Len(earlier.produced) = 2
  /\ earlier.call.pending = <<>> /\ earlier.produced # SubSeq(produced, 1, 2)
====
